---- MODULE Spec2Model ----
(***************************************************************************)
(* Model of june/models/llm.py: the LLM.generate conversation turn         *)
(* (context resolution, history appends, the backend call with its single  *)
(* retry, normalisation of the completion, the returned message).          *)
(*                                                                         *)
(* One generate call is a frame that advances one source statement per     *)
(* step. self.contexts, the torch attention-kernel switches and the uuid   *)
(* source are shared by all callers. The backend (the transformers         *)
(* pipeline) is the environment: each invocation either returns a bare     *)
(* string, returns the prompt conversation extended by one assistant       *)
(* message, or raises.                                                     *)
(***************************************************************************)
EXTENDS Integers, Sequences, FiniteSets, TLC

(* ---------------------------------------------------------------- bounds *)

\* Number of generate calls started in one behaviour.
MaxCalls == 2

\* Number of chunks the backend hands to the streamer in one behaviour.
MaxChunks == 1

\* Longest chunk, in characters.
MaxChunkLen == 3

\* The characters of chunks and markers. A text is a sequence of characters.
Chars == {"h", "b", "e"}

\* Values of tokenizer.bos_token and tokenizer.eos_token (some tokenizers
\* use one text for both).
BosTokens == {<<"b">>, <<"b", "b">>, <<"e">>}

EosTokens == {<<"e">>, <<"e", "e">>, <<"b", "e">>}

\* Threads that call generate.
Callers == {"t1", "t2"}

\* The thread that issues the calls when they are made one after the other.
SerialCallers == {"t1"}

\* Texts a caller passes as `message` (the empty message is accepted).
Messages == {"", "hi"}

\* Texts the backend generates.
Contents == {"a", "b"}

\* Context ids a caller may invent (ids never produced by uuid4).
CallerIds == {"x"}

\* The values str(uuid.uuid4()) yields, in the order it yields them. uuid4
\* draws 122 random bits; the model takes its values to be pairwise distinct
\* and distinct from every caller-invented id.
UuidNames == <<"g1", "g2", "g3", "g4", "g5", "g6">>

(* ------------------------------------------------------- python values *)

\* Python's None, for kwargs.get("context_id") and kwargs.get("system_prompt").
None == "<None>"

\* Python truthiness of an optional string: None and "" are falsy.
Truthy(v) == v \notin {None, ""}

\* A chat message dict {"role": ..., "content": ...}.
Msg(role, content) == [role |-> role, content |-> content]

\* Placeholder for a local that is not bound yet.
NoMsg == [role |-> "unset", content |-> ""]

\* The outcomes of one pipeline invocation:
\*   kind "str":   generated_text is the bare completion string `text`;
\*   kind "conv":  generated_text is the prompt conversation plus one
\*                 assistant message with content `text`;
\*   kind "fault": the invocation raises an exception of class `etype`
\*                 whose str() carries "cutlassF" iff `cutlass`.
StrResult(c) ==
  [kind |-> "str", text |-> c, conv |-> <<>>, etype |-> "", cutlass |-> FALSE]

ConvResult(prompt, c) ==
  [kind |-> "conv", text |-> c, conv |-> Append(prompt, Msg("assistant", c)),
   etype |-> "", cutlass |-> FALSE]

Fault(etype, cutlass) ==
  [kind |-> "fault", text |-> "", conv |-> <<>>, etype |-> etype, cutlass |-> cutlass]

NoResult == [kind |-> "unset", text |-> "", conv |-> <<>>, etype |-> "", cutlass |-> FALSE]

\* Exception classes the backend raises: RuntimeError (and its subclasses)
\* is what the except clause catches, ValueError stands for every other class.
ErrorTypes == {"RuntimeError", "ValueError"}

Faults == {Fault(t, c) : t \in ErrorTypes, c \in BOOLEAN}

\* The ways the backend can behave on one invocation, whatever the prompt.
Behaviours ==
  {StrResult(c) : c \in Contents} \cup {ConvResult(<<>>, c) : c \in Contents} \cup Faults

\* The outcome of an invocation on `prompt` when the backend behaves as b.
Outcome(b, prompt) == IF b.kind = "conv" THEN ConvResult(prompt, b.text) ELSE b

\* What self.pipeline(history, **generation_args)[0]["generated_text"] can do
\* when given `prompt`.
BackendOutcomes(prompt) == {Outcome(b, prompt) : b \in Behaviours}

(* ----------------------------------------------------------------- state *)

VARIABLES
  contexts,        \* self.contexts: context id -> list of messages
  system_prompt,   \* self.system_prompt, fixed at construction
  TORCH_DEVICE,    \* settings.TORCH_DEVICE, fixed configuration
  sdp,             \* torch.backends.cuda switches: mem_efficient, flash
  uuids,           \* how many values uuid.uuid4() has produced
  frames,          \* per caller: the locals and position of its generate call
  started,         \* number of generate calls started
  turns,           \* history variable: per context id, the <<user text,
                   \*   backend text>> of every call that returned, in order
  faults           \* history variable: per context id, calls that raised

VARIABLES
  bos_token,       \* TokenStreamer.bos_token
  eos_token,       \* TokenStreamer.eos_token
  sink,            \* the calls of super().on_finalized_text(text, stream_end)
  fed              \* history variable: the chunks on_finalized_text was given,
                   \*   each with the length of sink when it was done

llmVars == <<contexts, system_prompt, TORCH_DEVICE, sdp, uuids, frames, started, turns, faults>>

streamerVars == <<bos_token, eos_token, sink, fed>>

vars == <<contexts, system_prompt, TORCH_DEVICE, sdp, uuids, frames, started, turns, faults,
          bos_token, eos_token, sink, fed>>

AllIds == CallerIds \cup {UuidNames[i] : i \in 1..Len(UuidNames)}

\* The locals of generate before the call starts.
IdleFrame ==
  [pc |-> "idle",
   message |-> "",
   kwargs_context_id |-> None,
   context_id |-> None,
   attach_context_id |-> FALSE,
   init_context |-> FALSE,
   completion |-> NoMsg,
   e |-> NoResult,
   prompts |-> <<>>,      \* the history each pipeline invocation was given
   results |-> <<>>,      \* the outcome of each pipeline invocation
   disables |-> 0,        \* times this call switched the kernels off
   store |-> << >>,       \* self.contexts when the call started
   minted |-> 0,          \* uuid4 values produced before the call started
   alone |-> TRUE,        \* no other call worked on the same context id
                          \*   while this call was running
   ret |-> NoMsg,         \* the returned message
   raised |-> NoResult]   \* the exception that left generate

\* Line 110: generate returns msg. The locals stay on record until the
\* caller's next call.
Returned(f, msg) == [f EXCEPT !.pc = "returned", !.ret = msg]

\* An exception leaves generate.
Raised(f, fault) == [f EXCEPT !.pc = "raised", !.raised = fault]

Rest == {"idle", "returned", "raised"}

Init ==
  /\ contexts = << >>
  /\ system_prompt \in {None, "", "S"}
  /\ TORCH_DEVICE \in {"cuda", "cpu"}
  /\ sdp = [mem_efficient |-> TRUE, flash |-> TRUE]
  /\ uuids = 0
  /\ frames = [p \in Callers |-> IdleFrame]
  /\ started = 0
  /\ turns = [c \in AllIds |-> <<>>]
  /\ faults = [c \in AllIds |-> 0]
  /\ bos_token = <<"b">>
  /\ eos_token = <<"e">>
  /\ sink = <<>>
  /\ fed = <<>>

(* ------------------------------------------- the statements of generate *)

\* Mutant: the store is replaced by one holding only the new context.
SetItem_Replacing(ctxs, id, value) == [c \in {id} |-> value]

\* self.contexts[context_id] = value
SetItem(ctxs, id, value) ==
  [c \in (DOMAIN ctxs) \cup {id} |-> IF c = id THEN value ELSE ctxs[c]]

\* Mutant: the id is generated once and used for every call.
Uuid4_Cached(n) == UuidNames[1]

\* str(uuid.uuid4()) when n values were produced before.
Uuid4(n) == UuidNames[n + 1]

\* Mutant: a known id is initialised again, which resets its history.
ResolveContext_AlwaysInit(arg, ctxs, n) ==
  IF ~Truthy(arg)
    THEN [attach_context_id |-> TRUE, init_context |-> TRUE, context_id |-> Uuid4(n)]
    ELSE [attach_context_id |-> FALSE, init_context |-> TRUE, context_id |-> arg]

\* Mutant: an id the store does not know is attached to the answer like a
\* generated one.
ResolveContext_EchoUnknown(arg, ctxs, n) ==
  IF ~Truthy(arg)
    THEN [attach_context_id |-> TRUE, init_context |-> TRUE, context_id |-> Uuid4(n)]
    ELSE IF arg \notin DOMAIN ctxs
      THEN [attach_context_id |-> TRUE, init_context |-> TRUE, context_id |-> arg]
      ELSE [attach_context_id |-> FALSE, init_context |-> FALSE, context_id |-> arg]

\* Lines 71-80: attach_context_id, init_context and context_id from
\* kwargs.get("context_id") and the store.
ResolveContext(arg, ctxs, n) ==
  IF ~Truthy(arg)
    THEN [attach_context_id |-> TRUE, init_context |-> TRUE, context_id |-> Uuid4(n)]
    ELSE IF arg \notin DOMAIN ctxs
      THEN [attach_context_id |-> FALSE, init_context |-> TRUE, context_id |-> arg]
      ELSE [attach_context_id |-> FALSE, init_context |-> FALSE, context_id |-> arg]

\* Line 83: the list a new context starts with.
NewHistory == <<>>

\* Line 86: .append({"role": "system", "content": self.system_prompt})
AppendSystemMessage(history, prompt) == Append(history, Msg("system", prompt))

\* Mutant: the user message is inserted at the front of the list.
AppendUserMessage_Front(history, message) == <<Msg("user", message)>> \o history

\* Mutant: the user message is taken back, as a rollback on failure would.
AppendUserMessage_Dropped(history, message) == history

\* Mutant: the system prompt is sent again with every user message.
AppendUserMessage_WithSystem(history, message) ==
  history \o <<Msg("system", system_prompt), Msg("user", message)>>

\* Line 88: .append({"role": "user", "content": message})
AppendUserMessage(history, message) == Append(history, Msg("user", message))

\* Line 92: the exceptions `except RuntimeError` catches.
Caught(fault) == fault.etype = "RuntimeError"

\* Mutant: the device is compared with the wrong name.
KernelIncompatible_WrongDevice(fault, device) == fault.cutlass /\ device = "gpu"

\* Mutant: the device is not looked at.
KernelIncompatible_AnyDevice(fault, device) == fault.cutlass

\* Line 93: "cutlassF" in str(e) and settings.TORCH_DEVICE == "cuda"
KernelIncompatible(fault, device) == fault.cutlass /\ device = "cuda"

\* Lines 94-95: enable_mem_efficient_sdp(False); enable_flash_sdp(False)
DisableKernels(switches) == [mem_efficient |-> FALSE, flash |-> FALSE]

\* Mutant: a conversation gives its first message.
Normalize_FirstMessage(generated_text) ==
  IF generated_text.kind = "str"
    THEN Msg("assistant", generated_text.text)
    ELSE generated_text.conv[1]

\* Lines 100-103: a bare string is wrapped, a conversation gives its last message.
Normalize(generated_text) ==
  IF generated_text.kind = "str"
    THEN Msg("assistant", generated_text.text)
    ELSE generated_text.conv[Len(generated_text.conv)]

\* Mutant: the completion is never stored.
AppendAssistantMessage_Dropped(history, completion) == history

\* Mutant: the completion is inserted before the stored messages.
AppendAssistantMessage_Front(history, completion) == <<completion>> \o history

\* Mutant: the completion is appended twice.
AppendAssistantMessage_Twice(history, completion) ==
  Append(Append(history, completion), completion)

\* Line 105: .append({**completion})
AppendAssistantMessage(history, completion) == Append(history, completion)

\* Mutant: the id is attached whether or not it was generated.
ReturnValue_Always(completion, attach, id) == [context_id |-> id] @@ completion

\* Lines 107-110: completion.update({"context_id": context_id}) when attaching.
ReturnValue(completion, attach, id) ==
  IF attach THEN [context_id |-> id] @@ completion ELSE completion

\* Lines 70-110 run without interruption: generate(message, context_id=arg)
\* on the store ctxs when uuid4 produced n values before and the backend
\* behaves as b1 on the first invocation and as b2 on the second, if there is
\* one. Gives the store afterwards and how the call ends.
RunGenerate(ctxs, n, message, arg, b1, b2) ==
  LET r == ResolveContext(arg, ctxs, n)
      id == r.context_id
      created == IF r.init_context THEN SetItem(ctxs, id, NewHistory) ELSE ctxs
      primed == IF r.init_context /\ Truthy(system_prompt)
                  THEN [created EXCEPT ![id] = AppendSystemMessage(@, system_prompt)]
                  ELSE created
      asked == [primed EXCEPT ![id] = AppendUserMessage(@, message)]
      first == Outcome(b1, asked[id])
      final == IF first.kind = "fault" /\ Caught(first) THEN Outcome(b2, asked[id]) ELSE first
      completion == Normalize(final)
  IN IF final.kind = "fault"
       THEN [pc |-> "raised", context_id |-> id, contexts |-> asked,
             ret |-> NoMsg, raised |-> final]
       ELSE [pc |-> "returned", context_id |-> id,
             contexts |-> [asked EXCEPT ![id] = AppendAssistantMessage(@, completion)],
             ret |-> ReturnValue(completion, r.attach_context_id, id),
             raised |-> NoResult]

(* --------------------------------------------------------------- actions *)

Frame(p) == frames[p]

\* No generate call is in progress.
AllAtRest == \A q \in Callers : frames[q].pc \in Rest

\* The ids a caller can pass: none, the empty string, an invented id, or an
\* id already in the store.
CallerArgs == {None, ""} \cup CallerIds \cup DOMAIN contexts

\* Lines 70-73: a caller enters generate(message, context_id=arg) while no
\* other call is running (calls are issued one after the other).
Call(p, message, arg) ==
  /\ AllAtRest
  /\ started < MaxCalls
  /\ frames' = [frames EXCEPT ![p] =
       [IdleFrame EXCEPT !.pc = "resolve",
                         !.message = message,
                         !.kwargs_context_id = arg,
                         !.context_id = arg,
                         !.store = contexts,
                         !.minted = uuids]]
  /\ started' = started + 1
  /\ UNCHANGED <<contexts, system_prompt, TORCH_DEVICE, sdp, uuids, turns, faults>>
  /\ UNCHANGED streamerVars

\* Lines 75-82.
Resolve(p) ==
  /\ Frame(p).pc = "resolve"
  /\ LET r == ResolveContext(Frame(p).context_id, contexts, uuids) IN
       /\ frames' = [frames EXCEPT ![p] =
            [@ EXCEPT !.pc = IF r.init_context THEN "init" ELSE "append_user",
                      !.attach_context_id = r.attach_context_id,
                      !.init_context = r.init_context,
                      !.context_id = r.context_id]]
       /\ uuids' = IF r.attach_context_id THEN uuids + 1 ELSE uuids
  /\ UNCHANGED <<contexts, system_prompt, TORCH_DEVICE, sdp, started, turns, faults>>
  /\ UNCHANGED streamerVars

\* Lines 83-85.
InitContext(p) ==
  /\ Frame(p).pc = "init"
  /\ contexts' = SetItem(contexts, Frame(p).context_id, NewHistory)
  /\ frames' = [frames EXCEPT ![p].pc =
       IF Truthy(system_prompt) THEN "append_system" ELSE "append_user"]
  /\ UNCHANGED <<system_prompt, TORCH_DEVICE, sdp, uuids, started, turns, faults>>
  /\ UNCHANGED streamerVars

\* Line 86.
AppendSystem(p) ==
  /\ Frame(p).pc = "append_system"
  /\ contexts' = [contexts EXCEPT ![Frame(p).context_id] =
       AppendSystemMessage(@, system_prompt)]
  /\ frames' = [frames EXCEPT ![p].pc = "append_user"]
  /\ UNCHANGED <<system_prompt, TORCH_DEVICE, sdp, uuids, started, turns, faults>>
  /\ UNCHANGED streamerVars

\* Line 88.
AppendUser(p) ==
  /\ Frame(p).pc = "append_user"
  /\ contexts' = [contexts EXCEPT ![Frame(p).context_id] =
       AppendUserMessage(@, Frame(p).message)]
  /\ frames' = [frames EXCEPT ![p].pc = "pipeline"]
  /\ UNCHANGED <<system_prompt, TORCH_DEVICE, sdp, uuids, started, turns, faults>>
  /\ UNCHANGED streamerVars

\* The frame after a pipeline invocation on `prompt` ended with `outcome`,
\* when a fault that is caught continues at `handler`.
AfterInvocation(f, prompt, outcome, handler) ==
  LET g == [f EXCEPT !.prompts = Append(@, prompt), !.results = Append(@, outcome)] IN
  IF outcome.kind # "fault"
    THEN [g EXCEPT !.pc = "normalize"]
    ELSE IF handler # "" /\ Caught(outcome)
      THEN [g EXCEPT !.pc = handler, !.e = outcome]
      ELSE Raised(g, outcome)

\* Lines 90-92: the first pipeline invocation; a RuntimeError enters the handler,
\* any other exception leaves generate.
Pipeline(p) ==
  /\ Frame(p).pc = "pipeline"
  /\ \E outcome \in BackendOutcomes(contexts[Frame(p).context_id]) :
       /\ frames' = [frames EXCEPT ![p] =
            AfterInvocation(@, contexts[Frame(p).context_id], outcome, "except")]
       /\ faults' = IF frames'[p].pc = "raised"
                      THEN [faults EXCEPT ![Frame(p).context_id] = @ + 1]
                      ELSE faults
  /\ UNCHANGED <<contexts, system_prompt, TORCH_DEVICE, sdp, uuids, started, turns>>
  /\ UNCHANGED streamerVars

\* Lines 93-95.
Except(p) ==
  /\ Frame(p).pc = "except"
  /\ IF KernelIncompatible(Frame(p).e, TORCH_DEVICE)
       THEN /\ sdp' = DisableKernels(sdp)
            /\ frames' = [frames EXCEPT ![p].pc = "retry", ![p].disables = @ + 1]
       ELSE /\ sdp' = sdp
            /\ frames' = [frames EXCEPT ![p].pc = "retry"]
  /\ UNCHANGED <<contexts, system_prompt, TORCH_DEVICE, uuids, started, turns, faults>>
  /\ UNCHANGED streamerVars

\* Mutant: a RuntimeError of the second invocation enters the handler again.
Retry_Again(p) ==
  /\ Frame(p).pc = "retry"
  /\ \E outcome \in BackendOutcomes(contexts[Frame(p).context_id]) :
       /\ frames' = [frames EXCEPT ![p] =
            AfterInvocation(@, contexts[Frame(p).context_id], outcome, "except")]
       /\ faults' = IF frames'[p].pc = "raised"
                      THEN [faults EXCEPT ![Frame(p).context_id] = @ + 1]
                      ELSE faults
  /\ UNCHANGED <<contexts, system_prompt, TORCH_DEVICE, sdp, uuids, started, turns>>
  /\ UNCHANGED streamerVars

\* Line 98: the second pipeline invocation, inside the handler; whatever it
\* raises leaves generate.
Retry(p) ==
  /\ Frame(p).pc = "retry"
  /\ \E outcome \in BackendOutcomes(contexts[Frame(p).context_id]) :
       /\ frames' = [frames EXCEPT ![p] =
            AfterInvocation(@, contexts[Frame(p).context_id], outcome, "")]
       /\ faults' = IF frames'[p].pc = "raised"
                      THEN [faults EXCEPT ![Frame(p).context_id] = @ + 1]
                      ELSE faults
  /\ UNCHANGED <<contexts, system_prompt, TORCH_DEVICE, sdp, uuids, started, turns>>
  /\ UNCHANGED streamerVars

\* The generated_text of the invocation that succeeded.
GeneratedText(f) == f.results[Len(f.results)]

\* Lines 100-103.
NormalizeCompletion(p) ==
  /\ Frame(p).pc = "normalize"
  /\ frames' = [frames EXCEPT ![p].pc = "append_assistant",
                              ![p].completion = Normalize(GeneratedText(Frame(p)))]
  /\ UNCHANGED <<contexts, system_prompt, TORCH_DEVICE, sdp, uuids, started, turns, faults>>
  /\ UNCHANGED streamerVars

\* Line 105.
AppendAssistant(p) ==
  /\ Frame(p).pc = "append_assistant"
  /\ contexts' = [contexts EXCEPT ![Frame(p).context_id] =
       AppendAssistantMessage(@, Frame(p).completion)]
  /\ frames' = [frames EXCEPT ![p].pc = "return"]
  /\ UNCHANGED <<system_prompt, TORCH_DEVICE, sdp, uuids, started, turns, faults>>
  /\ UNCHANGED streamerVars

\* Mutant: the dict that was appended is the one that is updated and
\* returned (append(completion) without the copy).
Return_Aliased(p) ==
  /\ Frame(p).pc = "return"
  /\ frames' = [frames EXCEPT ![p] =
       Returned(@, ReturnValue(Frame(p).completion, Frame(p).attach_context_id,
                       Frame(p).context_id))]
  /\ contexts' = [contexts EXCEPT ![Frame(p).context_id] =
       [@ EXCEPT ![Len(@)] = frames'[p].ret]]
  /\ turns' = [turns EXCEPT ![Frame(p).context_id] =
       Append(@, <<Frame(p).message, GeneratedText(Frame(p)).text>>)]
  /\ UNCHANGED <<system_prompt, TORCH_DEVICE, sdp, uuids, started, faults>>
  /\ UNCHANGED streamerVars

\* Lines 107-110.
Return(p) ==
  /\ Frame(p).pc = "return"
  /\ frames' = [frames EXCEPT ![p] =
       Returned(@, ReturnValue(Frame(p).completion, Frame(p).attach_context_id,
                       Frame(p).context_id))]
  /\ turns' = [turns EXCEPT ![Frame(p).context_id] =
       Append(@, <<Frame(p).message, GeneratedText(Frame(p)).text>>)]
  /\ UNCHANGED <<contexts, system_prompt, TORCH_DEVICE, sdp, uuids, started, faults>>
  /\ UNCHANGED streamerVars

Next ==
  \E p \in SerialCallers :
    \/ \E message \in Messages, arg \in CallerArgs : Call(p, message, arg)
    \/ Resolve(p)
    \/ InitContext(p)
    \/ AppendSystem(p)
    \/ AppendUser(p)
    \/ Pipeline(p)
    \/ Except(p)
    \/ Retry(p)
    \/ NormalizeCompletion(p)
    \/ AppendAssistant(p)
    \/ Return(p)

Spec == Init /\ [][Next]_vars

TypeOK ==
  /\ DOMAIN contexts \subseteq AllIds
  /\ uuids \in 0..MaxCalls
  /\ started \in 0..MaxCalls
  /\ \A p \in Callers : frames[p].pc \in Rest \cup
       {"resolve", "init", "append_system", "append_user", "pipeline", "except",
        "retry", "normalize", "append_assistant", "return"}

(* ------------------------------------------------- the token streamer *)

\* str.startswith(prefix)
StartsWith(text, prefix) ==
  Len(prefix) <= Len(text) /\ SubSeq(text, 1, Len(prefix)) = prefix

\* str.endswith(suffix)
EndsWith(text, suffix) ==
  Len(suffix) <= Len(text) /\ SubSeq(text, Len(text) - Len(suffix) + 1, Len(text)) = suffix

\* `sub in text`
Contains(text, sub) ==
  \E i \in 0..(Len(text) - Len(sub)) : SubSeq(text, i + 1, i + Len(sub)) = sub

\* Mutant: every trailing occurrence of the suffix is removed, as a loop or
\* rstrip would.
RECURSIVE RemoveSuffix_Repeated(_, _)
RemoveSuffix_Repeated(text, suffix) ==
  IF suffix # <<>> /\ EndsWith(text, suffix)
    THEN RemoveSuffix_Repeated(SubSeq(text, 1, Len(text) - Len(suffix)), suffix)
    ELSE text

\* str.removesuffix(suffix): the text without the suffix when it ends with
\* it, else the text.
RemoveSuffix(text, suffix) ==
  IF suffix # <<>> /\ EndsWith(text, suffix)
    THEN SubSeq(text, 1, Len(text) - Len(suffix))
    ELSE text

\* Lines 24-25: the text that is passed on.
StripEos(text, eos) == IF Contains(text, eos) THEN RemoveSuffix(text, eos) ELSE text

\* Mutant: only a chunk that is the marker itself is suppressed.
Forwarded_OnlyBareBos(text, stream_end, bos, eos) ==
  IF text = bos
    THEN <<>>
    ELSE <<[text |-> StripEos(text, eos), stream_end |-> stream_end]>>

\* Lines 20-27: the calls of super().on_finalized_text that
\* on_finalized_text(text, stream_end) makes: none, or one.
Forwarded(text, stream_end, bos, eos) ==
  IF StartsWith(text, bos)
    THEN <<>>
    ELSE <<[text |-> StripEos(text, eos), stream_end |-> stream_end]>>

\* The texts of at most n characters.
Texts(n) == UNION {[1..k -> Chars] : k \in 0..n}

\* Lines 14-18: a streamer is constructed with the tokenizer's markers; the
\* LLM it belongs to makes no call.
FilterInit ==
  /\ contexts = << >>
  /\ system_prompt = None
  /\ TORCH_DEVICE = "cpu"
  /\ sdp = [mem_efficient |-> TRUE, flash |-> TRUE]
  /\ uuids = 0
  /\ frames = [p \in Callers |-> IdleFrame]
  /\ started = 0
  /\ turns = [c \in AllIds |-> <<>>]
  /\ faults = [c \in AllIds |-> 0]
  /\ bos_token \in BosTokens
  /\ eos_token \in EosTokens
  /\ sink = <<>>
  /\ fed = <<>>

\* Lines 20-27: the backend hands a finalized chunk to the streamer.
OnFinalizedText(text, stream_end) ==
  /\ Len(fed) < MaxChunks
  /\ sink' = sink \o Forwarded(text, stream_end, bos_token, eos_token)
  /\ fed' = Append(fed, [text |-> text, stream_end |-> stream_end, sunk |-> Len(sink')])
  /\ UNCHANGED <<bos_token, eos_token>>
  /\ UNCHANGED llmVars

FilterNext ==
  \E text \in Texts(MaxChunkLen), stream_end \in BOOLEAN : OnFinalizedText(text, stream_end)

FilterSpec == FilterInit /\ [][FilterNext]_vars

(* ------------------------------------------------------ claim helpers *)

Last(seq) == seq[Len(seq)]

IsPrefix(s, t) == Len(s) <= Len(t) /\ SubSeq(t, 1, Len(s)) = s

\* The messages of a list of <<user text, backend text>> turns, in order.
RECURSIVE TurnMessages(_)
TurnMessages(ts) ==
  IF ts = <<>> THEN <<>>
  ELSE <<Msg("user", ts[1][1]), Msg("assistant", ts[1][2])>> \o TurnMessages(Tail(ts))

\* A call of some caller is working on context c.
InProgress(c) == \E p \in Callers : frames[p].pc \notin Rest /\ frames[p].context_id = c

\* The fault the retry policy is written for: the kernel-incompatibility
\* signature in the fault text, on the GPU device.
Retryable(fault) == fault.kind = "fault" /\ fault.cutlass /\ TORCH_DEVICE = "cuda"

\* The history a context has after initialisation and before its first turn.
Initialised == IF Truthy(system_prompt) THEN <<Msg("system", system_prompt)>> ELSE <<>>

\* The history the call of frame f found: the one stored under the id it
\* was given, or a freshly initialised one.
Existed(f) == f.kwargs_context_id \in DOMAIN f.store

Base(f) == IF Existed(f) THEN f.store[f.kwargs_context_id] ELSE Initialised

(* ------------------------------------------------- concurrent callers *)

\* Two threads call generate once each on an LLM that served earlier calls.
\* The message each thread sends:
ThreadMessage(p) == IF p = "t1" THEN "hi" ELSE ""

\* The ids a thread passes: none, an invented id, or an id in the store.
ThreadArgs == {None} \cup CallerIds \cup DOMAIN contexts

\* The backend behaviours the threads meet: a bare string, a conversation,
\* a RuntimeError with the cutlassF text and an exception of another class.
ThreadBehaviours ==
  {StrResult("a"), ConvResult(<<>>, "b"), Fault("RuntimeError", TRUE), Fault("ValueError", FALSE)}

\* The turn an earlier call left under the id x.
EarlierTurn == <<"hi", "a">>

\* self.contexts when the threads start: empty, or holding the context x
\* that one earlier call generate("hi", context_id="x") created.
EarlierStores ==
  {<< >>, [c \in {"x"} |-> Initialised \o TurnMessages(<<EarlierTurn>>)]}

ConcurrentInit ==
  /\ system_prompt \in {None, "S"}
  /\ TORCH_DEVICE = "cuda"
  /\ contexts \in EarlierStores
  /\ turns = [c \in AllIds |-> IF c \in DOMAIN contexts THEN <<EarlierTurn>> ELSE <<>>]
  /\ faults = [c \in AllIds |-> 0]
  /\ sdp = [mem_efficient |-> TRUE, flash |-> TRUE]
  /\ uuids = 0
  /\ frames = [p \in Callers |-> IdleFrame]
  /\ started = 0
  /\ bos_token = <<"b">>
  /\ eos_token = <<"e">>
  /\ sink = <<>>
  /\ fed = <<>>

\* Another caller than p has a call in progress on context id.
Busy(id, p) ==
  /\ Truthy(id)
  /\ \E q \in Callers \ {p} : frames[q].pc \notin Rest /\ frames[q].context_id = id

\* Lines 70-73: a thread enters generate(message, context_id=arg), whatever
\* the other thread is doing.
ConcurrentCall(p, message, arg) ==
  /\ frames[p].pc = "idle"
  /\ started < MaxCalls
  /\ frames' = [q \in Callers |->
       IF q = p
         THEN [IdleFrame EXCEPT !.pc = "resolve",
                                !.message = message,
                                !.kwargs_context_id = arg,
                                !.context_id = arg,
                                !.store = contexts,
                                !.minted = uuids,
                                !.alone = ~Busy(arg, p)]
         ELSE IF Truthy(arg) /\ frames[q].pc \notin Rest /\ frames[q].context_id = arg
           THEN [frames[q] EXCEPT !.alone = FALSE]
           ELSE frames[q]]
  /\ started' = started + 1
  /\ UNCHANGED <<contexts, system_prompt, TORCH_DEVICE, sdp, uuids, turns, faults>>
  /\ UNCHANGED streamerVars

\* The behaviour of the backend that gave outcome o.
BehaviourOf(o) == IF o.kind = "conv" THEN ConvResult(<<>>, o.text) ELSE o

\* The backend behaved in one of the ways the threads meet.
ThreadBackend ==
  \A p \in Callers :
    \A i \in 1..Len(frames'[p].results) :
      BehaviourOf(frames'[p].results[i]) \in ThreadBehaviours

\* The threads call generate with no synchronisation between them.
ConcurrentNext ==
  \E p \in Callers :
    \/ \E arg \in ThreadArgs : ConcurrentCall(p, ThreadMessage(p), arg)
    \/ Resolve(p)
    \/ InitContext(p)
    \/ AppendSystem(p)
    \/ AppendUser(p)
    \/ Pipeline(p) /\ ThreadBackend
    \/ Except(p)
    \/ Retry(p) /\ ThreadBackend
    \/ NormalizeCompletion(p)
    \/ AppendAssistant(p)
    \/ Return(p)

ConcurrentSpec == ConcurrentInit /\ [][ConcurrentNext]_vars

\* A thread enters generate holding the mutex of its context id: it waits
\* while another call is in progress on that id. (A call without an id works
\* on an id that no other caller has yet.)
LockedCall(p, message, arg) ==
  /\ ~Busy(arg, p)
  /\ ConcurrentCall(p, message, arg)

\* The threads call generate, serialised per context id.
LockedNext ==
  \E p \in Callers :
    \/ \E arg \in ThreadArgs : LockedCall(p, ThreadMessage(p), arg)
    \/ Resolve(p)
    \/ InitContext(p)
    \/ AppendSystem(p)
    \/ AppendUser(p)
    \/ Pipeline(p) /\ ThreadBackend
    \/ Except(p)
    \/ Retry(p) /\ ThreadBackend
    \/ NormalizeCompletion(p)
    \/ AppendAssistant(p)
    \/ Return(p)

LockedSpec == ConcurrentInit /\ [][LockedNext]_vars

(* ---------------------------------------------------------------- claims *)

\* C1: with a system prompt S configured, a context on which no call raised
\* and on which no call is running holds exactly [S, U1, A1, ..., Un, An]:
\* S, then for each call that returned, in call order, its user message
\* followed by the backend's reply.
C1_HistoryOrdering ==
  Truthy(system_prompt) =>
    \A c \in DOMAIN contexts :
      (faults[c] = 0 /\ ~InProgress(c)) =>
        contexts[c] = <<Msg("system", system_prompt)>> \o TurnMessages(turns[c])

\* Two turns U1 -> A1, U2 -> A2 with different texts were stored after S.
C1_Witness ==
  /\ Truthy(system_prompt)
  /\ \E c \in DOMAIN contexts :
       /\ faults[c] = 0 /\ ~InProgress(c)
       /\ Len(turns[c]) = 2
       /\ turns[c][1] # turns[c][2]
       /\ Len(contexts[c]) = 5

\* C2: when the first backend call fails with a fault that is not the
\* retryable one, the call makes no second backend call, and the fault that
\* leaves generate is that first fault.
C2_NonRetryablePropagates ==
  \A p \in Callers :
    LET f == frames[p] IN
      (Len(f.results) >= 1 /\ f.results[1].kind = "fault" /\ ~Retryable(f.results[1])) =>
        /\ Len(f.results) = 1
        /\ f.pc = "raised" => f.raised = f.results[1]

\* C3: when the first backend call fails with the kernel-incompatibility
\* fault on the GPU and the second succeeds, generate returns the message of
\* the second result, that message is the last entry of the history, and the
\* kernels were switched off exactly once during the call.
C3_RetryScenario ==
  \A p \in Callers :
    LET f == frames[p] IN
      (f.pc = "returned" /\ Len(f.results) = 2 /\ Retryable(f.results[1])) =>
        /\ f.ret.role = "assistant"
        /\ f.ret.content = f.results[2].text
        /\ Last(contexts[f.context_id]) = Msg("assistant", f.results[2].text)
        /\ contexts[f.context_id] =
             Base(f) \o <<Msg("user", f.message), Msg("assistant", f.results[2].text)>>
        /\ f.disables = 1
        /\ sdp = [mem_efficient |-> FALSE, flash |-> FALSE]

C3_Witness ==
  \E p \in Callers :
    LET f == frames[p] IN
      /\ f.pc = "returned" /\ Len(f.results) = 2 /\ Retryable(f.results[1])
      /\ f.results[2].kind = "conv"
      /\ f.disables = 1

\* C4: a generate call invokes the backend at most twice; the second
\* invocation follows a failed first one and is given the same history; when
\* the second fails too, its fault leaves generate, and the history holds no
\* assistant message for the call.
C4_AtMostOneRetry ==
  \A p \in Callers :
    LET f == frames[p] IN
      /\ Len(f.results) <= 2
      /\ Len(f.prompts) = Len(f.results)
      /\ Len(f.results) = 2 =>
           /\ f.results[1].kind = "fault"
           /\ f.prompts[2] = f.prompts[1]
           /\ f.results[2].kind = "fault" =>
                /\ f.pc = "raised"
                /\ f.raised = f.results[2]
                /\ contexts[f.context_id] = Append(Base(f), Msg("user", f.message))

C4_Witness ==
  \E p \in Callers :
    LET f == frames[p] IN
      /\ f.pc = "raised" /\ Len(f.results) = 2
      /\ f.results[2] # f.results[1]
      /\ Existed(f)

\* C5: after a generate call that raised, the history of its context is the
\* history before the call (the freshly initialised one for a new context)
\* with exactly the user message appended.
C5_NoRollback ==
  \A p \in Callers :
    LET f == frames[p] IN
      f.pc = "raised" =>
        contexts[f.context_id] = Append(Base(f), Msg("user", f.message))

C5_Witness ==
  \E p \in Callers :
    LET f == frames[p] IN
      /\ f.pc = "raised"
      /\ Existed(f) /\ Len(Base(f)) >= 2
      /\ Last(contexts[f.context_id]) = Msg("user", f.message)

\* The user messages of a history that no assistant message directly follows.
Unanswered(h) ==
  Cardinality({i \in 1..Len(h) :
    h[i].role = "user" /\ (i = Len(h) \/ h[i + 1].role # "assistant")})

\* The assistant messages of a history.
Replies(h) == Cardinality({i \in 1..Len(h) : h[i].role = "assistant"})

\* C6 as stated: between calls no history ends with a user message or holds
\* two adjacent user messages, also after calls that raised.
C6_EveryUserAnswered ==
  AllAtRest =>
    \A c \in DOMAIN contexts :
      LET h == contexts[c] IN
        /\ Len(h) > 0 => Last(h).role # "user"
        /\ \A i \in 1..(Len(h) - 1) : ~(h[i].role = "user" /\ h[i + 1].role = "user")

\* C6, amended: between calls, the user message of every call that returned
\* is directly followed by one assistant message, and the user messages that
\* no assistant message follows are exactly those of the calls that raised:
\* a history has as many unanswered user messages as calls on it raised, as
\* many assistant messages as calls on it returned, and every assistant
\* message directly follows a user message.
C6_AnsweredUnlessRaised ==
  AllAtRest =>
    \A c \in DOMAIN contexts :
      LET h == contexts[c] IN
        /\ Unanswered(h) = faults[c]
        /\ Replies(h) = Len(turns[c])
        /\ \A i \in 1..Len(h) :
             h[i].role = "assistant" => (i > 1 /\ h[i - 1].role = "user")

\* A call raised and the next call on the same context returned: two user
\* messages are adjacent and only the second one is answered.
C6_Witness ==
  /\ AllAtRest
  /\ \E c \in DOMAIN contexts :
       LET h == contexts[c] IN
         /\ faults[c] = 1 /\ Len(turns[c]) = 1
         /\ \E i \in 1..(Len(h) - 2) :
              /\ h[i].role = "user" /\ h[i + 1].role = "user"
              /\ h[i + 2].role = "assistant"

\* C7: no step removes a context from the store or changes what a history
\* already holds (the old history is a prefix of the new one), and a call
\* given the id of an existing context has, once its user message is
\* appended, the history it found followed by that message.
C7_AppendOnly ==
  [][/\ \A c \in DOMAIN contexts :
          c \in DOMAIN contexts' /\ IsPrefix(contexts[c], contexts'[c])
     /\ \A p \in Callers :
          LET f == frames'[p] IN
            (Existed(f) /\ f.pc \notin {"idle", "resolve", "append_user"}) =>
              IsPrefix(Append(f.store[f.kwargs_context_id], Msg("user", f.message)),
                       contexts'[f.kwargs_context_id])]_vars

\* A call resumed a context that held a full turn, and returned.
C7_Witness ==
  \E p \in Callers :
    LET f == frames[p] IN
      /\ f.pc = "returned" /\ Existed(f)
      /\ Len(Base(f)) >= 3
      /\ Len(contexts[f.context_id]) = Len(Base(f)) + 2

\* C8: the returned message has a context_id field exactly when the caller
\* passed no id (None or ""); the field then holds the id under which the
\* turn is stored; an id the caller passed is never put on the message.
C8_IdAttachedIffGenerated ==
  \A p \in Callers :
    LET f == frames[p] IN
      f.pc = "returned" =>
        /\ ("context_id" \in DOMAIN f.ret) <=> ~Truthy(f.kwargs_context_id)
        /\ DOMAIN f.ret \subseteq {"role", "content", "context_id"}
        /\ ("context_id" \in DOMAIN f.ret) =>
             /\ f.ret.context_id \in DOMAIN contexts
             /\ f.ret.context_id \notin DOMAIN f.store
             /\ contexts[f.ret.context_id] =
                  Initialised \o <<Msg("user", f.message), Msg("assistant", f.ret.content)>>

\* One call without an id returned its generated id; the next call passed an
\* id the store did not know and got no id back.
C8_Witness ==
  /\ \E p \in Callers :
       LET f == frames[p] IN
         /\ f.pc = "returned"
         /\ f.kwargs_context_id \in CallerIds /\ ~Existed(f)
         /\ "context_id" \notin DOMAIN f.ret
  /\ \E c \in DOMAIN contexts : c \notin CallerIds

\* The behaviours of a second invocation that can make a difference after
\* b1: all of them when b1 is a fault, none but b1 itself when it is not.
SecondBehaviours(b1) == IF b1.kind = "fault" THEN Behaviours ELSE {b1}

\* C9: from the same store, with the same message and the same backend
\* behaviour, a call with a never-seen id x and a call with no id end the
\* same way (both return or both raise the same fault), leave the same
\* history (the initialised history, the user message, the reply if any),
\* the first under x and the second under the generated id, leave every
\* other context alone, and return the same role and content; only the
\* second returns a context_id, the generated id. This is compared in every
\* state from which a caller can start a call, and the calls of the
\* behaviour end as RunGenerate computes.
C9_UnknownIdLikeNoId ==
  /\ (AllAtRest /\ started < MaxCalls) =>
       \A x \in CallerIds \ DOMAIN contexts, absent \in {None, ""}, m \in Messages,
          b1 \in Behaviours : \A b2 \in SecondBehaviours(b1) :
         LET withId == RunGenerate(contexts, uuids, m, x, b1, b2)
             noId == RunGenerate(contexts, uuids, m, absent, b1, b2)
             g == noId.context_id
         IN /\ withId.pc = noId.pc
            /\ withId.raised = noId.raised
            /\ withId.context_id = x
            /\ g \notin DOMAIN contexts /\ g # x
            /\ DOMAIN withId.contexts = DOMAIN contexts \cup {x}
            /\ DOMAIN noId.contexts = DOMAIN contexts \cup {g}
            /\ \A c \in DOMAIN contexts :
                 withId.contexts[c] = contexts[c] /\ noId.contexts[c] = contexts[c]
            /\ withId.contexts[x] = noId.contexts[g]
            /\ IsPrefix(Append(Initialised, Msg("user", m)), withId.contexts[x])
            /\ withId.pc = "returned" =>
                 /\ withId.ret.role = noId.ret.role
                 /\ withId.ret.content = noId.ret.content
                 /\ withId.contexts[x] =
                      Initialised \o <<Msg("user", m), Msg(noId.ret.role, noId.ret.content)>>
                 /\ "context_id" \notin DOMAIN withId.ret
                 /\ "context_id" \in DOMAIN noId.ret
                 /\ noId.ret.context_id = g
  /\ \A p \in Callers :
       LET f == frames[p] IN
         f.pc \in {"returned", "raised"} =>
           LET run == RunGenerate(f.store, f.minted, f.message, f.kwargs_context_id,
                                  BehaviourOf(f.results[1]),
                                  BehaviourOf(Last(f.results)))
           IN /\ run.pc = f.pc
              /\ run.context_id = f.context_id
              /\ run.contexts = contexts
              /\ run.ret = f.ret
              /\ run.raised = f.raised

\* Between calls the store holds one context and does not know x, and the
\* last call, which passed no id, retried and returned.
C9_Witness ==
  /\ AllAtRest /\ started < MaxCalls
  /\ CallerIds \ DOMAIN contexts # {}
  /\ DOMAIN contexts # {}
  /\ \E p \in Callers :
       LET f == frames[p] IN
         /\ f.pc = "returned" /\ ~Truthy(f.kwargs_context_id)
         /\ Len(f.results) = 2

\* C10: every history holds at most one system message; when it holds one,
\* that message is its first entry and carries the configured system prompt;
\* with no system prompt configured (None or "") no history holds a system
\* message.
C10_OneSystemMessageFirst ==
  \A c \in DOMAIN contexts :
    LET h == contexts[c] IN
      \A i \in 1..Len(h) :
        h[i].role = "system" =>
          /\ i = 1
          /\ Truthy(system_prompt)
          /\ h[i].content = system_prompt

\* A context holds the system prompt and two turns after it.
C10_Witness ==
  \E c \in DOMAIN contexts :
    /\ Len(contexts[c]) = 5
    /\ contexts[c][1] = Msg("system", system_prompt)
    /\ \A i \in 2..5 : contexts[c][i].role # "system"

\* What the streamer passed on while it handled the i-th chunk.
ForwardedFor(i) ==
  SubSeq(sink, (IF i = 1 THEN 0 ELSE fed[i - 1].sunk) + 1, fed[i].sunk)

\* C13: for a chunk that is the BOS marker or begins with it, nothing is
\* passed on, whatever follows the marker and whatever stream_end is.
C13_BosChunkSuppressed ==
  \A i \in 1..Len(fed) :
    StartsWith(fed[i].text, bos_token) => ForwardedFor(i) = <<>>

\* A final chunk made of the BOS marker, more text and a trailing EOS marker
\* was handled and nothing reached the sink.
C13_Witness ==
  \E i \in 1..Len(fed) :
    /\ StartsWith(fed[i].text, bos_token)
    /\ Len(fed[i].text) > Len(bos_token)
    /\ EndsWith(fed[i].text, eos_token)
    /\ fed[i].stream_end
    /\ ForwardedFor(i) = <<>>

\* C14: a chunk that does not begin with the BOS marker is passed on once,
\* with its stream_end flag; when it ends with the EOS marker the text passed
\* on is the chunk without that one trailing occurrence (the text passed on
\* followed by the marker is the chunk), otherwise it is the chunk.
C14_OneTrailingEosStripped ==
  \A i \in 1..Len(fed) :
    ~StartsWith(fed[i].text, bos_token) =>
      /\ Len(ForwardedFor(i)) = 1
      /\ ForwardedFor(i)[1].stream_end = fed[i].stream_end
      /\ IF EndsWith(fed[i].text, eos_token)
           THEN ForwardedFor(i)[1].text \o eos_token = fed[i].text
           ELSE ForwardedFor(i)[1].text = fed[i].text

\* A chunk ending in two EOS markers was passed on with one of them left.
C14_Witness ==
  \E i \in 1..Len(fed) :
    /\ ~StartsWith(fed[i].text, bos_token)
    /\ EndsWith(fed[i].text, eos_token \o eos_token)
    /\ Len(ForwardedFor(i)) = 1
    /\ ForwardedFor(i)[1].text \o eos_token = fed[i].text
    /\ EndsWith(ForwardedFor(i)[1].text, eos_token)

\* C18: no text passed on to the sink contains the EOS marker.
C18_NoEosReachesSink ==
  \A j \in 1..Len(sink) : ~Contains(sink[j].text, eos_token)

\* C15: a call without an id gets an id that is not in the store and that no
\* earlier call worked on, so it adds a context and leaves every context
\* the store held, with its history, as it was. (uuid4 values are taken to be
\* pairwise distinct and distinct from ids that callers invent; generate
\* itself compares the new id with nothing.)
C15_GeneratedIdsFresh ==
  \A p \in Callers :
    LET f == frames[p] IN
      f.attach_context_id =>
        /\ f.context_id \notin DOMAIN f.store
        /\ f.pc = "init" => f.context_id \notin DOMAIN contexts
        /\ f.pc \notin Rest => (turns[f.context_id] = <<>> /\ faults[f.context_id] = 0)
        /\ f.pc \notin {"init"} =>
             /\ DOMAIN contexts = DOMAIN f.store \cup {f.context_id}
             /\ \A c \in DOMAIN f.store : contexts[c] = f.store[c]

\* The second call without an id returned: the store holds two generated
\* ids, the first with the turn it had before.
C15_Witness ==
  \E p \in Callers :
    LET f == frames[p] IN
      /\ f.pc = "returned" /\ f.attach_context_id
      /\ f.minted = 1
      /\ \E c \in DOMAIN f.store :
           c \notin CallerIds /\ c # f.context_id /\ Len(contexts[c]) >= 2

\* C16: when a call has appended its completion, the entry appended is one
\* record with the fields role and content and the role assistant: the bare
\* string wrapped when generated_text is a string, the last message of the
\* conversation when it is a conversation; the message returned has that
\* role and content.
C16_CompletionNormalised ==
  \A p \in Callers :
    LET f == frames[p] IN
      f.pc \in {"return", "returned"} =>
        LET g == GeneratedText(f)
            stored == Last(contexts[f.context_id])
        IN /\ DOMAIN stored = {"role", "content"}
           /\ stored.role = "assistant"
           /\ g.kind = "str" => stored = [role |-> "assistant", content |-> g.text]
           /\ g.kind = "conv" => stored = Last(g.conv)
           /\ contexts[f.context_id] = Base(f) \o <<Msg("user", f.message), stored>>
           /\ f.pc = "returned" =>
                (f.ret.role = stored.role /\ f.ret.content = stored.content)

\* A call returned the last message of a conversation of four or more.
C16_Witness ==
  \E p \in Callers :
    LET f == frames[p] IN
      /\ f.pc = "returned"
      /\ GeneratedText(f).kind = "conv"
      /\ Len(GeneratedText(f).conv) >= 4
      /\ f.ret.content = Last(GeneratedText(f).conv).content

\* C17: a call switches the kernels off at most once, and only in the
\* handler of a first invocation that raised with the cutlassF text while
\* the device is cuda; the switches change in no other step, and a switch
\* that is off stays off.
C17_HookOnlyOnRetryPath ==
  [][/\ \A p \in Callers :
          LET f == frames'[p] IN
            /\ f.disables <= 1
            /\ f.disables = 1 =>
                 /\ Len(f.results) >= 1
                 /\ f.results[1].kind = "fault" /\ f.results[1].cutlass
                 /\ f.results[1].etype = "RuntimeError"
                 /\ TORCH_DEVICE = "cuda"
     /\ sdp' # sdp =>
          \E p \in Callers :
            /\ frames[p].pc = "except" /\ frames'[p].pc = "retry"
            /\ Len(frames[p].results) = 1
            /\ frames'[p].disables = frames[p].disables + 1
     /\ \A p \in Callers :
          frames'[p].disables # frames[p].disables =>
            (frames'[p].disables = 0 \/
               (frames[p].pc = "except" /\ sdp' = [mem_efficient |-> FALSE, flash |-> FALSE]))
     /\ ~sdp.mem_efficient => ~sdp'.mem_efficient
     /\ ~sdp.flash => ~sdp'.flash]_vars

\* The kernels were switched off by an earlier call; the last call's first
\* invocation succeeded, it switched nothing and the kernels are still off.
C17_Witness ==
  /\ sdp = [mem_efficient |-> FALSE, flash |-> FALSE]
  /\ \E p \in Callers :
       LET f == frames[p] IN
         /\ f.pc = "returned" /\ Len(f.results) = 1 /\ f.disables = 0

\* C19: no step changes or removes an entry that a history holds; every
\* stored entry has the fields role and content only; the step that returns
\* the message, with the context id attached or not, leaves the store as it
\* is, its last entry being the completion as it was appended.
C19_StoredMessagesImmutable ==
  [][/\ \A c \in DOMAIN contexts :
          /\ c \in DOMAIN contexts'
          /\ \A i \in 1..Len(contexts[c]) :
               i <= Len(contexts'[c]) /\ contexts'[c][i] = contexts[c][i]
     /\ \A c \in DOMAIN contexts' :
          \A i \in 1..Len(contexts'[c]) : DOMAIN contexts'[c][i] = {"role", "content"}
     /\ \A p \in Callers :
          (frames[p].pc = "return" /\ frames'[p].pc = "returned") =>
            /\ contexts' = contexts
            /\ Last(contexts'[frames[p].context_id]) = frames[p].completion]_vars

\* A call returned its message with the generated id attached; the entry it
\* stored has no such field.
C19_Witness ==
  \E p \in Callers :
    LET f == frames[p] IN
      /\ f.pc = "returned"
      /\ "context_id" \in DOMAIN f.ret
      /\ "context_id" \notin DOMAIN Last(contexts[f.context_id])
      /\ Last(contexts[f.context_id]).content = f.ret.content

(* C11: two calls on one context id that overlap in time leave the turn
   order broken. A user message is appended directly after another user
   message only by a call that overlaps another call on the same id, or
   after a call on that id ended in an exception; and the interleaving
   user, user, assistant, assistant does occur (C11_Witness), with one
   call's prompt holding the other call's unanswered user message. *)
C11_UserAfterUserNeedsOverlap ==
  [][\A p \in Callers :
       LET c == frames[p].context_id IN
       (/\ frames[p].pc = "append_user"
        /\ frames'[p].pc = "pipeline"
        /\ contexts[c] # <<>>
        /\ Last(contexts[c]).role = "user")
       => (Busy(c, p) \/ faults[c] > 0)]_vars

\* Both threads returned from calls on the same id with no exception, the
\* history ends user, user, assistant, assistant, and the prompt of one call
\* ended with the other call's user message followed by its own.
C11_Witness ==
  \E p \in Callers : \E q \in Callers \ {p} :
    LET c == frames[p].context_id
        h == contexts[c]
        n == Len(h)
        prompt == frames[p].prompts[1]
        k == Len(prompt) IN
    /\ frames[p].pc = "returned"
    /\ frames[q].pc = "returned"
    /\ frames[q].context_id = c
    /\ faults[c] = 0
    /\ n >= 4
    /\ <<h[n - 3].role, h[n - 2].role, h[n - 1].role, h[n].role>>
         = <<"user", "user", "assistant", "assistant">>
    /\ k >= 2
    /\ prompt[k - 1] = Msg("user", frames[q].message)
    /\ prompt[k] = Msg("user", frames[p].message)

\* How many values uuid4 had produced when the call of frame f drew its id.
DrawnBefore(f) ==
  IF f.attach_context_id
    THEN CHOOSE n \in 0..(Len(UuidNames) - 1) : Uuid4(n) = f.context_id
    ELSE f.minted

\* The call of frame f, run without interruption on the store it found.
Sequential(f) ==
  RunGenerate(f.store, DrawnBefore(f), f.message, f.kwargs_context_id,
              BehaviourOf(f.results[1]), BehaviourOf(Last(f.results)))

(* C12: calls that work on different context ids do not interfere, however
   they interleave. A step of a call changes no context but its own; and a
   call that shared its context id with no overlapping call ends as the
   same call run alone on the store it found: same history under its id,
   same returned message, same exception. *)
C12_DistinctContextsIndependent ==
  [][\A p \in Callers :
       frames'[p].pc # frames[p].pc =>
         /\ DOMAIN contexts \subseteq DOMAIN contexts'
         /\ \A c \in DOMAIN contexts :
              c # frames'[p].context_id => contexts'[c] = contexts[c]
         /\ (frames[p].pc \notin Rest /\ frames'[p].pc \in Rest /\ frames'[p].alone) =>
              LET f == frames'[p]
                  run == Sequential(f) IN
              /\ run.pc = f.pc
              /\ run.context_id = f.context_id
              /\ run.contexts[f.context_id] = contexts'[f.context_id]
              /\ run.ret = f.ret
              /\ run.raised = f.raised]_vars

\* Both threads returned; t1 resumed the context x, t2 worked on another id
\* and entered generate while t1's user message was still unanswered.
C12_Witness ==
  LET f1 == frames["t1"]
      f2 == frames["t2"] IN
  /\ f1.pc = "returned" /\ f2.pc = "returned"
  /\ f1.alone /\ f2.alone
  /\ f1.context_id = "x"
  /\ f2.context_id # "x"
  /\ "x" \in DOMAIN f1.store
  /\ "x" \in DOMAIN f2.store
  /\ Last(f2.store["x"]) = Msg("user", f1.message)
  /\ faults["x"] = 0
  /\ Len(contexts["x"]) = Len(f1.store["x"]) + 2
  /\ Len(contexts[f2.context_id]) = Len(Initialised) + 2

(* C20: with the calls serialised per context id, no call overlaps another
   on its id, and every context that is at rest and saw no exception holds
   its initial messages followed by the turns made on it, one user message
   and its assistant reply per turn, in the order the calls returned:
   nothing is lost and the roles alternate. Every finished call returned
   or raised what it does when run alone on the store it found. *)
C20_SerialisedIsSequential ==
  /\ \A p \in Callers : frames[p].alone
  /\ \A c \in DOMAIN contexts :
       (~InProgress(c) /\ faults[c] = 0) =>
         contexts[c] = Initialised \o TurnMessages(turns[c])
  /\ \A p \in Callers :
       frames[p].pc \in {"returned", "raised"} =>
         LET f == frames[p]
             run == Sequential(f) IN
         /\ run.pc = f.pc
         /\ run.context_id = f.context_id
         /\ run.ret = f.ret
         /\ run.raised = f.raised

\* Both threads returned from calls on the context x, one after the other.
C20_Witness ==
  /\ \A p \in Callers : frames[p].pc = "returned" /\ frames[p].context_id = "x"
  /\ faults["x"] = 0
  /\ Len(turns["x"]) >= 2
  /\ \E i \in 1..(Len(turns["x"]) - 1) :
       {turns["x"][i][1], turns["x"][i + 1][1]} = {ThreadMessage(p) : p \in Callers}

====
